---- MODULE Spec2Model ----
(***************************************************************************)
(* TestZeus MCP server (src/testzeus_mcp_server/server.py): the process-   *)
(* wide session `testzeus_client`, ensure_authenticated,                   *)
(* authenticate_testzeus and the 41 tool / resource handlers, as asyncio   *)
(* coroutines that interleave only where an await suspends them.           *)
(***************************************************************************)
EXTENDS Integers, Sequences, FiniteSets, TLC

\* ------------------------------------------------------------------ bounds
NTasks == 2
MaxExcess == 100

Tasks == 1..NTasks

\* ------------------------------------------------------ python values
NoneV == "None"
NoClient == 0

\* Faulty variant of Truthy: only None counts as absent (`is None`).
Truthy_NotNone(s) == s # NoneV

Truthy(s) == s \notin {NoneV, ""}

Or(a, b) == IF Truthy(a) THEN a ELSE b

\* ------------------------------------------------------ handler catalogue
ListTools ==
    {"list_tests", "list_test_runs", "list_environments", "list_test_data", "list_tags"}

UpdateTools ==
    {"update_test", "update_environment", "update_test_data", "update_tag"}

OtherTools ==
    {"get_test", "create_test", "delete_test", "run_test", "get_test_run",
     "create_test_run", "delete_test_run", "get_environment", "create_environment",
     "delete_environment", "remove_all_environment_files", "add_environment_file",
     "remove_environment_file", "get_test_data", "create_test_data",
     "delete_test_data", "remove_all_test_data_files", "add_test_data_file",
     "remove_test_data_file", "create_tags", "get_tag", "delete_tag"}

Tools == ListTools \cup UpdateTools \cup OtherTools

ListResources ==
    {"list_tests_resource", "list_test_runs_resource", "list_environments_resource",
     "list_test_data_resource", "list_tags_resource"}

GetResources ==
    {"get_test_resource", "get_test_run_resource", "get_environment_resource",
     "get_test_data_resource", "get_tag_resource"}

Resources == ListResources \cup GetResources

Handlers == Tools \cup Resources

H(n, m, p) == [name |-> n, method |-> m, prefix |-> p]

HandlerTable ==
    { H("list_tests", "tests.get_list", "Error listing tests"),
      H("get_test", "tests.get_one", "Error getting test"),
      H("create_test", "tests.create_test", "Error creating test"),
      H("update_test", "tests.update_test", "Error updating test"),
      H("delete_test", "tests.delete", "Error deleting test"),
      H("run_test", "tests.run_test", "Error running test"),
      H("list_test_runs", "test_runs.get_list", "Error listing test runs"),
      H("get_test_run", "test_runs.get_expanded", "Error getting test run"),
      H("create_test_run", "test_runs.create_and_start", "Error creating test run"),
      H("delete_test_run", "test_runs.delete", "Error deleting test run"),
      H("list_environments", "environments.get_list", "Error listing environments"),
      H("get_environment", "environments.get_one", "Error getting environment"),
      H("create_environment", "environments.create_environment", "Error creating environment"),
      H("update_environment", "environments.update_environment", "Error updating environment"),
      H("delete_environment", "environments.delete", "Error deleting environment"),
      H("remove_all_environment_files", "environments.remove_all_files",
        "Error removing all environment files"),
      H("add_environment_file", "environments.add_file", "Error adding environment file"),
      H("remove_environment_file", "environments.remove_file", "Error removing environment file"),
      H("get_test_data", "test_data.get_one", "Error getting test data"),
      H("create_test_data", "test_data.create_test_data", "Error creating test data"),
      H("delete_test_data", "test_data.delete", "Error deleting test data"),
      H("update_test_data", "test_data.update_test_data", "Error updating test data"),
      H("list_test_data", "test_data.get_list", "Error listing test data"),
      H("remove_all_test_data_files", "test_data.remove_all_files",
        "Error removing all test data files"),
      H("add_test_data_file", "test_data.add_file", "Error adding file to test data"),
      H("remove_test_data_file", "test_data.remove_file", "Error removing file from test data"),
      H("create_tags", "tags.create_tag", "Error creating tag"),
      H("list_tags", "tags.get_list", "Error listing tags"),
      H("get_tag", "tags.get_one", "Error getting tag"),
      H("delete_tag", "tags.delete", "Error deleting tag"),
      H("update_tag", "tags.update_tag", "Error updating tag"),
      H("list_tests_resource", "tests.get_list", "Error listing tests"),
      H("get_test_resource", "tests.get_one", "Error getting test"),
      H("list_test_runs_resource", "test_runs.get_list", "Error listing test runs"),
      H("get_test_run_resource", "test_runs.get_one", "Error getting test run"),
      H("list_environments_resource", "environments.get_list", "Error listing environments"),
      H("get_environment_resource", "environments.get_one", "Error getting environment"),
      H("list_test_data_resource", "test_data.get_list", "Error listing test data"),
      H("get_test_data_resource", "test_data.get_one", "Error getting test data"),
      H("list_tags_resource", "tags.get_list", "Error listing tags"),
      H("get_tag_resource", "tags.get_one", "Error getting tag") }

Descriptor(op) == CHOOSE r \in HandlerTable : r.name = op

Method(op) == Descriptor(op).method

Prefix(op) == Descriptor(op).prefix

\* Handlers that read the value the remote call returned (projection / serialization).
Projects(op) ==
    op \notin {"delete_test", "delete_test_run", "update_environment", "delete_environment",
               "remove_all_environment_files", "add_environment_file",
               "remove_environment_file", "delete_test_data", "update_test_data",
               "remove_all_test_data_files", "add_test_data_file", "remove_test_data_file",
               "create_tags", "delete_tag", "update_tag"}

\* Handlers whose false session check is followed by `await authenticate_testzeus()`.
FallsBack(op) == op # "list_tags_resource"

\* ------------------------------------------------------ paging
PerPageCap == 100

DefaultPerPage(op) == IF op \in {"list_test_data", "list_tags"} THEN 10 ELSE 50

PerPageRequests(op) ==
    IF op \in ListTools
    THEN {DefaultPerPage(op), PerPageCap, PerPageCap + 1, PerPageCap + MaxExcess}
    ELSE {0}

Min(a, b) == IF a <= b THEN a ELSE b

\* Faulty variant of SentPerPage: the list tools forward the requested per_page uncapped.
SentPerPage_NoCap(op, per_page) ==
    IF op \in ListTools THEN per_page
    ELSE IF op \in ListResources THEN PerPageCap
    ELSE 0

\* per_page keyword of the remote call (0: the call carries none).
SentPerPage(op, per_page) ==
    IF op \in ListTools THEN Min(per_page, PerPageCap)
    ELSE IF op \in ListResources THEN PerPageCap
    ELSE 0

\* ------------------------------------------------------ remote platform
\* Credentials the remote platform accepts (the platform is external: any
\* handshake may still fail for a network reason).
ArgEmails == {NoneV, "", "a@x"}
ArgPasswords == {NoneV, "", "pa"}
\* the environment: nothing set, the email alone, or both
Environments == {[email |-> NoneV, password |-> NoneV],
                 [email |-> "b@x", password |-> NoneV],
                 [email |-> "b@x", password |-> "pb"]}

ValidCreds(c) == c \in {[email |-> "a@x", password |-> "pa"],
                        [email |-> "b@x", password |-> "pb"]}

NoCreds == [email |-> NoneV, password |-> NoneV]

\* ------------------------------------------------------ inputs
\* The first coroutine is called with any handler and any arguments. The coroutines
\* running beside it are called with one input of each kind that differs in what it
\* does to the session: a handler (it revalidates the stored handle and falls back
\* to authenticate_testzeus), and authenticate_testzeus with its own or the
\* environment's credentials.
HandlerChoices(t) == IF t = 1 THEN Handlers ELSE {"get_test"}

CtxChoices(t) == IF t = 1 THEN BOOLEAN ELSE {FALSE}

CredentialChoices(t) ==
    IF t = 1
    THEN [email : ArgEmails, password : ArgPasswords]
    ELSE {[email |-> NoneV, password |-> NoneV], [email |-> "a@x", password |-> "pa"]}

\* ------------------------------------------------------ update tools
\* the optional parameters of the update tools
AllParams ==
    {"name", "test_feature", "status", "test_data", "tags", "execution_mode",
     "environment", "data_content", "supporting_data_files", "content", "type", "value"}

UpdateParams(op) ==
    CASE op = "update_test" ->
           {"name", "test_feature", "status", "test_data", "tags", "execution_mode",
            "environment"}
      [] op = "update_environment" ->
           {"name", "data_content", "status", "tags", "supporting_data_files"}
      [] op = "update_test_data" ->
           {"name", "status", "content", "tags", "type", "supporting_data_files"}
      [] op = "update_tag" -> {"name", "value"}
      [] OTHER -> {}

\* the key under which parameter f is put into `data`
SentKey(op, f) == IF op = "update_environment" /\ f = "data_content" THEN "env_data" ELSE f

\* the parameter's default: None, but `execution_mode ... = "lenient"`
ParamDefault(op, f) ==
    IF op = "update_test" /\ f = "execution_mode" THEN "lenient" ELSE NoneV

\* what a caller passes for parameter f: nothing (None), an empty value, a value
ParamValues(op, f) ==
    IF f = "execution_mode" THEN {NoneV, "lenient", "strict"} ELSE {NoneV, "", "v"}

\* no optional parameter passed
NoArgs == [f \in AllParams |-> NoneV]

\* the calls of update tool op, by the optional parameters passed
UpdateArgs(op) ==
    {[f \in AllParams |-> IF f \in DOMAIN a THEN a[f] ELSE NoneV] :
        a \in {b \in [UpdateParams(op) -> {NoneV, "", "v", "lenient", "strict"}] :
                  \A f \in UpdateParams(op) : b[f] \in ParamValues(op, f)}}

\* the value the parameter is bound to inside the handler
Bound(op, args, f) == IF args[f] = NoneV THEN ParamDefault(op, f) ELSE args[f]

\* `data = {}; if name: data["name"] = name; ...`
UpdateData(op, args) ==
    {[key |-> SentKey(op, f), value |-> Bound(op, args, f)] :
        f \in {g \in UpdateParams(op) : Truthy(Bound(op, args, g))}}

\* In the specification of the update tools the first coroutine calls an update
\* tool; the others authenticate.
UpdateChoices(t) == IF t = 1 THEN UpdateTools ELSE {}

\* ------------------------------------------------------ results
NoResult == [kind |-> "none", prefix |-> "", cause |-> ""]

Success == [kind |-> "success", prefix |-> "", cause |-> ""]

\* f"{prefix}: {cause}"
Err(prefix, cause) == [kind |-> "error", prefix |-> prefix, cause |-> cause]

\* an exception that leaves the coroutine
Raised(cause) == [kind |-> "raised", prefix |-> "", cause |-> cause]

\* the boolean ensure_authenticated returns
BoolStr(b) == IF b THEN "true" ELSE "false"

Bool(b) == [kind |-> "bool", prefix |-> "", cause |-> BoolStr(b)]

NoCall == [method |-> "", per_page |-> 0]

\* ------------------------------------------------------ state
VARIABLES
    testzeus_client,  \* the global session: NoClient or the handle stored
    hcreds,           \* handle -> the credentials it was constructed with
    shaken,           \* handle -> its handshake has completed successfully
    envEmail,         \* os.getenv("TESTZEUS_EMAIL")
    envPassword,      \* os.getenv("TESTZEUS_PASSWORD")
    task,             \* coroutine -> its frame (arguments, position, locals, history)
    lastWritten       \* history: the handle of the latest write to testzeus_client

vars == <<testzeus_client, hcreds, shaken, envEmail, envPassword, task, lastWritten>>

\* The handle a coroutine constructs is named after the coroutine: one invocation
\* runs authenticate_testzeus at most once.
Handles == Tasks

IdleTask ==
    [kind |-> "none", op |-> "", ctx |-> FALSE, per_page |-> 0, argsOK |-> TRUE,
     email |-> NoneV, password |-> NoneV,
     pc |-> "idle", ens |-> "none", auth |-> "none", fellBack |-> FALSE,
     raced |-> FALSE,
     revalHnd |-> NoClient, prior |-> NoClient,
     rv |-> "none", ens2 |-> "none", rv2 |-> "none",
     callHnd |-> NoClient, callShaken |-> FALSE, sent |-> NoCall,
     args |-> NoArgs, data |-> {},
     remote |-> "none", notifyFault |-> FALSE,
     nReval |-> 0, nShake |-> 0, nCall |-> 0,
     pending |-> NoResult, result |-> NoResult]

\* Faulty variant of Init: the module authenticates from the environment when it
\* is imported (`testzeus_client = TestZeusClient(os.getenv(...), os.getenv(...))`).
Init_EagerAuth ==
    /\ \E env \in Environments :
        /\ envEmail = env.email /\ envPassword = env.password
        /\ LET eager == Truthy(env.email) /\ Truthy(env.password)
           IN  /\ testzeus_client = IF eager THEN 1 ELSE NoClient
               /\ lastWritten = IF eager THEN 1 ELSE NoClient
               /\ hcreds = [h \in Handles |-> IF eager /\ h = 1 THEN env ELSE NoCreds]
               /\ shaken = [h \in Handles |-> eager /\ h = 1 /\ ValidCreds(env)]
    /\ task = [t \in Tasks |-> IdleTask]

Init ==
    /\ testzeus_client = NoClient
    /\ hcreds = [h \in Handles |-> NoCreds]
    /\ shaken = [h \in Handles |-> FALSE]
    /\ \E env \in Environments : envEmail = env.email /\ envPassword = env.password
    /\ task = [t \in Tasks |-> IdleTask]
    /\ lastWritten = NoClient

\* ------------------------------------------------------ handler bodies
\* `return r`
Finish(tk, r) == [tk EXCEPT !.pc = "done", !.result = r, !.pending = NoResult]

\* Faulty variant of Fail: no `except Exception`, the fault leaves the handler.
Fail_Propagate(tk, cause) == Finish(tk, Raised(cause))

\* `except Exception as e: error_msg = ...; if ctx: await ctx.error(error_msg); return error_msg`
Fail(tk, cause) ==
    IF tk.ctx
    THEN [tk EXCEPT !.pc = "notify_error", !.pending = Err(Prefix(tk.op), cause)]
    ELSE Finish(tk, Err(Prefix(tk.op), cause))

\* success path after the projection: `if ctx: await ctx.info(...)`, then `return`
Succeed(tk) ==
    IF tk.ctx
    THEN [tk EXCEPT !.pc = "notify_info", !.pending = Success]
    ELSE Finish(tk, Success)

\* Faulty variant of IssueCall: the remote call is issued, and issued again (a retry).
IssueCall_Retry(tk, client, shk) ==
    [tk EXCEPT !.pc = "call", !.callHnd = client, !.callShaken = shk[client],
               !.nCall = @ + 2,
               !.sent = [method |-> Method(tk.op),
                         per_page |-> SentPerPage(tk.op, tk.per_page)],
               !.data = UpdateData(tk.op, tk.args)]

\* `await testzeus_client.<entity>.<method>(...)`: the global is read here
IssueCall(tk, client, shk) ==
    [tk EXCEPT !.pc = "call", !.callHnd = client, !.callShaken = shk[client],
               !.nCall = @ + 1,
               !.sent = [method |-> Method(tk.op),
                         per_page |-> SentPerPage(tk.op, tk.per_page)],
               !.data = UpdateData(tk.op, tk.args)]

\* What follows the session precondition, up to the next await or the return.
Body(tk, client, shk) ==
    IF tk.op = "create_test_run" /\ ~tk.argsOK
    THEN Finish(tk, [kind |-> "error", prefix |-> "Error", cause |-> "args_required"])
    ELSE IF client = NoClient
    THEN Fail(tk, "NoneType")
    ELSE IssueCall(tk, client, shk)

\* list_tags_resource: `return "Error: Not authenticated. ..."`
NotAuthenticated(tk) ==
    Finish(tk, [kind |-> "error", prefix |-> "Error", cause |-> "not_authenticated"])

\* What follows the return of authenticate_testzeus with outcome res
\* ("missing", "failed" or "ok"): the handler's body for a dispatched operation,
\* the notification and return for a direct call.
AfterAuth(tk, res, client, shk) ==
    LET tk1 == [tk EXCEPT !.auth = res]
        msg == CASE res = "missing" -> Err("Missing credentials", "required")
                 [] res = "failed" -> Err("Authentication failed", "handshake")
                 [] OTHER -> Success
    IN  IF tk.kind = "op"
        THEN Body(tk1, client, shk)
        ELSE IF tk.ctx
        THEN [tk1 EXCEPT !.pc = IF res = "ok" THEN "notify_info" ELSE "notify_error",
                         !.pending = msg]
        ELSE Finish(tk1, msg)

\* Faulty variant of authenticate_testzeus: a session already stored is kept
\* (`if testzeus_client is None: testzeus_client = ...`).
authenticate_testzeus_KeepFirst(t, tk, email, password) ==
    LET e == Or(email, envEmail)
        p == Or(password, envPassword)
        tk1 == [tk EXCEPT !.prior = testzeus_client]
    IN  IF ~Truthy(e) \/ ~Truthy(p)
        THEN /\ task' = [task EXCEPT ![t] = AfterAuth(tk1, "missing", testzeus_client, shaken)]
             /\ UNCHANGED <<testzeus_client, hcreds, shaken, lastWritten>>
        ELSE /\ testzeus_client' = IF testzeus_client = NoClient THEN t ELSE testzeus_client
             /\ lastWritten' = t
             /\ hcreds' = [hcreds EXCEPT ![t] = [email |-> e, password |-> p]]
             /\ shaken' = [shaken EXCEPT ![t] = FALSE]
             /\ task' = [task EXCEPT ![t] =
                  [tk1 EXCEPT !.pc = "handshake", !.nShake = @ + 1,
                              !.raced = \E u \in Tasks \ {t} : task[u].pc = "handshake"]]

\* authenticate_testzeus up to its first await (or its return).
authenticate_testzeus(t, tk, email, password) ==
    LET e == Or(email, envEmail)
        p == Or(password, envPassword)
        tk1 == [tk EXCEPT !.prior = testzeus_client]
    IN  IF ~Truthy(e) \/ ~Truthy(p)
        THEN /\ task' = [task EXCEPT ![t] = AfterAuth(tk1, "missing", testzeus_client, shaken)]
             /\ UNCHANGED <<testzeus_client, hcreds, shaken, lastWritten>>
        ELSE /\ testzeus_client' = t
             /\ lastWritten' = t
             /\ hcreds' = [hcreds EXCEPT ![t] = [email |-> e, password |-> p]]
             /\ shaken' = [shaken EXCEPT ![t] = FALSE]
             /\ task' = [task EXCEPT ![t] =
                  [tk1 EXCEPT !.pc = "handshake", !.nShake = @ + 1,
                              !.raced = \E u \in Tasks \ {t} : task[u].pc = "handshake"]]

\* The handler after ensure_authenticated() returned False.
CheckFailed(t, tk) ==
    LET tk1 == [tk EXCEPT !.ens = "false"]
    IN  IF FallsBack(tk.op)
        THEN authenticate_testzeus(t, [tk1 EXCEPT !.fellBack = TRUE], NoneV, NoneV)
        ELSE /\ task' = [task EXCEPT ![t] = NotAuthenticated(tk1)]
             /\ UNCHANGED <<testzeus_client, hcreds, shaken, lastWritten>>

\* ------------------------------------------------------ actions
\* A tool or resource handler is called: ensure_authenticated up to its await.
Invoke(t) ==
    /\ task[t].pc = "idle"
    /\ \E op \in HandlerChoices(t), ctx \in CtxChoices(t), argsOK \in BOOLEAN :
       \E pp \in PerPageRequests(op) :
        /\ ctx => op \in Tools
        /\ ~argsOK => op = "create_test_run"
        /\ LET tk == [task[t] EXCEPT !.kind = "op", !.op = op, !.ctx = ctx,
                                     !.per_page = pp, !.argsOK = argsOK]
           IN  IF testzeus_client = NoClient
               THEN CheckFailed(t, tk)
               ELSE /\ task' = [task EXCEPT ![t] =
                                  [tk EXCEPT !.pc = "reval", !.revalHnd = testzeus_client,
                                             !.nReval = @ + 1]]
                    /\ UNCHANGED <<testzeus_client, hcreds, shaken, lastWritten>>
    /\ UNCHANGED <<envEmail, envPassword>>

\* An update tool is called with some of its optional parameters:
\* ensure_authenticated up to its await.
InvokeUpdate(t) ==
    /\ task[t].pc = "idle"
    /\ \E op \in UpdateChoices(t), ctx \in CtxChoices(t) :
       \E args \in UpdateArgs(op) :
        LET tk == [task[t] EXCEPT !.kind = "op", !.op = op, !.ctx = ctx, !.args = args]
        IN  IF testzeus_client = NoClient
            THEN CheckFailed(t, tk)
            ELSE /\ task' = [task EXCEPT ![t] =
                               [tk EXCEPT !.pc = "reval", !.revalHnd = testzeus_client,
                                          !.nReval = @ + 1]]
                 /\ UNCHANGED <<testzeus_client, hcreds, shaken, lastWritten>>
    /\ UNCHANGED <<envEmail, envPassword>>

\* Faulty variant of RevalReturn: a revalidation that raises drops the session
\* (`except Exception: testzeus_client = None; return False`).
RevalReturn_ClearOnFailure(t) ==
    /\ task[t].pc = "reval"
    /\ \E ok \in BOOLEAN :
        /\ ok => ValidCreds(hcreds[task[t].revalHnd])
        /\ IF ok
           THEN LET shk == [shaken EXCEPT ![task[t].revalHnd] = TRUE]
                IN  /\ shaken' = shk
                    /\ task' = [task EXCEPT ![t] =
                                  Body([task[t] EXCEPT !.ens = "true", !.rv = "ok"],
                                       testzeus_client, shk)]
                    /\ UNCHANGED <<testzeus_client, hcreds, lastWritten>>
           ELSE LET tk1 == [task[t] EXCEPT !.rv = "raise", !.ens = "false"]
                IN  IF FallsBack(tk1.op) /\ Truthy(envEmail) /\ Truthy(envPassword)
                    THEN authenticate_testzeus(t, [tk1 EXCEPT !.fellBack = TRUE], NoneV, NoneV)
                    ELSE /\ testzeus_client' = NoClient
                         /\ task' = [task EXCEPT ![t] =
                               IF FallsBack(tk1.op)
                               THEN AfterAuth([tk1 EXCEPT !.fellBack = TRUE], "missing",
                                              NoClient, shaken)
                               ELSE NotAuthenticated(tk1)]
                         /\ UNCHANGED <<hcreds, shaken, lastWritten>>
    /\ UNCHANGED <<envEmail, envPassword>>

\* `await testzeus_client.ensure_authenticated()` of ensure_authenticated returns or raises.
RevalReturn(t) ==
    /\ task[t].pc = "reval"
    /\ \E ok \in BOOLEAN :
        /\ ok => ValidCreds(hcreds[task[t].revalHnd])
        /\ IF ok
           THEN LET shk == [shaken EXCEPT ![task[t].revalHnd] = TRUE]
                IN  /\ shaken' = shk
                    /\ task' = [task EXCEPT ![t] =
                                  Body([task[t] EXCEPT !.ens = "true", !.rv = "ok"],
                                       testzeus_client, shk)]
                    /\ UNCHANGED <<testzeus_client, hcreds, lastWritten>>
           ELSE CheckFailed(t, [task[t] EXCEPT !.rv = "raise"])
    /\ UNCHANGED <<envEmail, envPassword>>

\* ensure_authenticated is called directly, twice in succession by one coroutine:
\* the first call up to its await. With no session both calls return False at once.
EnsureTwice(t) ==
    /\ task[t].pc = "idle"
    /\ LET tk == [task[t] EXCEPT !.kind = "check", !.op = "ensure_authenticated",
                                 !.prior = testzeus_client,
                                 !.raced = \E u \in Tasks \ {t} : task[u].pc = "handshake"]
       IN  task' = [task EXCEPT ![t] =
             IF testzeus_client = NoClient
             THEN Finish([tk EXCEPT !.ens = "false", !.ens2 = "false"], Bool(FALSE))
             ELSE [tk EXCEPT !.pc = "check1", !.revalHnd = testzeus_client, !.nReval = @ + 1]]
    /\ UNCHANGED <<testzeus_client, hcreds, shaken, lastWritten, envEmail, envPassword>>

\* Faulty variant of EnsureReturn: a revalidation that raises drops the session, so
\* the second call finds none and returns False without a remote call.
EnsureReturn_ClearOnFailure(t) ==
    /\ task[t].pc \in {"check1", "check2"}
    /\ \E ok \in BOOLEAN :
        /\ ok => ValidCreds(hcreds[task[t].revalHnd])
        /\ shaken' = IF ok THEN [shaken EXCEPT ![task[t].revalHnd] = TRUE] ELSE shaken
        /\ testzeus_client' = IF ok THEN testzeus_client ELSE NoClient
        /\ task' = [task EXCEPT ![t] =
              IF task[t].pc = "check1"
              THEN IF ok
                   THEN [task[t] EXCEPT !.ens = "true", !.rv = "ok", !.pc = "check2",
                                        !.revalHnd = testzeus_client, !.nReval = @ + 1]
                   ELSE Finish([task[t] EXCEPT !.ens = "false", !.rv = "raise",
                                               !.ens2 = "false"], Bool(FALSE))
              ELSE Finish([task[t] EXCEPT !.ens2 = BoolStr(ok),
                                          !.rv2 = IF ok THEN "ok" ELSE "raise"], Bool(ok))]
    /\ UNCHANGED <<hcreds, lastWritten, envEmail, envPassword>>

\* The revalidation of a direct ensure_authenticated call returns or raises; after
\* the first call the second one starts on the handle the session holds then.
EnsureReturn(t) ==
    /\ task[t].pc \in {"check1", "check2"}
    /\ \E ok \in BOOLEAN :
        /\ ok => ValidCreds(hcreds[task[t].revalHnd])
        /\ shaken' = IF ok THEN [shaken EXCEPT ![task[t].revalHnd] = TRUE] ELSE shaken
        /\ task' = [task EXCEPT ![t] =
              IF task[t].pc = "check1"
              THEN [task[t] EXCEPT !.ens = BoolStr(ok), !.rv = IF ok THEN "ok" ELSE "raise",
                                   !.pc = "check2", !.revalHnd = testzeus_client,
                                   !.nReval = @ + 1]
              ELSE Finish([task[t] EXCEPT !.ens2 = BoolStr(ok),
                                          !.rv2 = IF ok THEN "ok" ELSE "raise"], Bool(ok))]
    /\ UNCHANGED <<testzeus_client, hcreds, lastWritten, envEmail, envPassword>>

\* authenticate_testzeus is called directly.
Authenticate(t) ==
    /\ task[t].pc = "idle"
    /\ \E c \in CredentialChoices(t), ctx \in CtxChoices(t) :
         authenticate_testzeus(t, [task[t] EXCEPT !.kind = "auth",
                                                  !.op = "authenticate_testzeus",
                                                  !.ctx = ctx, !.email = c.email,
                                                  !.password = c.password],
                               c.email, c.password)
    /\ UNCHANGED <<envEmail, envPassword>>

\* The handshake `await testzeus_client.ensure_authenticated()` of
\* authenticate_testzeus returns or raises.
HandshakeReturn(t) ==
    /\ task[t].pc = "handshake"
    /\ \E ok \in BOOLEAN :
        /\ ok => ValidCreds(hcreds[t])
        /\ LET shk == IF ok THEN [shaken EXCEPT ![t] = TRUE] ELSE shaken
           IN  /\ shaken' = shk
               /\ task' = [task EXCEPT ![t] =
                             AfterAuth(task[t], IF ok THEN "ok" ELSE "failed",
                                       testzeus_client, shk)]
    /\ UNCHANGED <<testzeus_client, hcreds, lastWritten, envEmail, envPassword>>

\* Faulty variant of CallReturn: remote calls are serialised, a handler gets the
\* outcome of its call only when no other handler's remote call is outstanding.
CallReturn_Serialised(t) ==
    /\ task[t].pc = "call"
    /\ \A u \in Tasks \ {t} : task[u].pc # "call"
    /\ \E out \in {"ok", "malformed", "raise"} :
        LET tk == [task[t] EXCEPT !.remote = out]
        IN  task' = [task EXCEPT ![t] =
                CASE out = "raise" -> Fail(tk, "remote")
                  [] out = "malformed" /\ Projects(tk.op) -> Fail(tk, "projection")
                  [] OTHER -> Succeed(tk)]
    /\ UNCHANGED <<testzeus_client, hcreds, shaken, lastWritten, envEmail, envPassword>>

\* Faulty variant of CallReturn: a remote call that raises drops the session
\* (`except Exception: testzeus_client = None`).
CallReturn_DropSession(t) ==
    /\ task[t].pc = "call"
    /\ \E out \in {"ok", "malformed", "raise"} :
        LET tk == [task[t] EXCEPT !.remote = out]
        IN  /\ task' = [task EXCEPT ![t] =
                  CASE out = "raise" -> Fail(tk, "remote")
                    [] out = "malformed" /\ Projects(tk.op) -> Fail(tk, "projection")
                    [] OTHER -> Succeed(tk)]
            /\ testzeus_client' = IF out = "raise" THEN NoClient ELSE testzeus_client
    /\ UNCHANGED <<hcreds, shaken, lastWritten, envEmail, envPassword>>

\* The remote domain call returns a well-formed value, a malformed one, or raises.
CallReturn(t) ==
    /\ task[t].pc = "call"
    /\ \E out \in {"ok", "malformed", "raise"} :
        LET tk == [task[t] EXCEPT !.remote = out]
        IN  task' = [task EXCEPT ![t] =
                CASE out = "raise" -> Fail(tk, "remote")
                  [] out = "malformed" /\ Projects(tk.op) -> Fail(tk, "projection")
                  [] OTHER -> Succeed(tk)]
    /\ UNCHANGED <<testzeus_client, hcreds, shaken, lastWritten, envEmail, envPassword>>

\* `await ctx.info(...)` inside the try block returns or raises.
NotifyInfoReturn(t) ==
    /\ task[t].pc = "notify_info"
    /\ \E ok \in BOOLEAN :
        task' = [task EXCEPT ![t] =
            IF ok THEN Finish(task[t], task[t].pending)
            ELSE [task[t] EXCEPT !.notifyFault = TRUE, !.pc = "notify_error",
                                 !.pending = Err(IF task[t].kind = "op"
                                                 THEN Prefix(task[t].op)
                                                 ELSE "Authentication failed", "notify")]]
    /\ UNCHANGED <<testzeus_client, hcreds, shaken, lastWritten, envEmail, envPassword>>

\* `await ctx.error(error_msg)` (outside any try block) returns or raises.
NotifyErrorReturn(t) ==
    /\ task[t].pc = "notify_error"
    /\ \E ok \in BOOLEAN :
        task' = [task EXCEPT ![t] =
            IF ok THEN Finish(task[t], task[t].pending)
            ELSE Finish([task[t] EXCEPT !.notifyFault = TRUE], Raised("notify"))]
    /\ UNCHANGED <<testzeus_client, hcreds, shaken, lastWritten, envEmail, envPassword>>

Next ==
    \E t \in Tasks :
        \/ Invoke(t)
        \/ Authenticate(t)
        \/ EnsureTwice(t)
        \/ EnsureReturn(t)
        \/ RevalReturn(t)
        \/ HandshakeReturn(t)
        \/ CallReturn(t)
        \/ NotifyInfoReturn(t)
        \/ NotifyErrorReturn(t)

Spec == Init /\ [][Next]_vars

\* The awaits of coroutine t: each is a remote call or a notification that returns
\* or raises; nothing else suspends a coroutine.
Returns(t) ==
    \/ EnsureReturn(t)
    \/ RevalReturn(t)
    \/ HandshakeReturn(t)
    \/ CallReturn(t)
    \/ NotifyInfoReturn(t)
    \/ NotifyErrorReturn(t)

\* The update tools under every choice of their optional parameters.
UpdateNext ==
    \E t \in Tasks :
        \/ InvokeUpdate(t)
        \/ Authenticate(t)
        \/ RevalReturn(t)
        \/ HandshakeReturn(t)
        \/ CallReturn(t)
        \/ NotifyInfoReturn(t)
        \/ NotifyErrorReturn(t)

UpdateSpec == Init /\ [][UpdateNext]_vars

\* The event loop resumes a coroutine whose awaited call has completed. Only the
\* first coroutine's awaits are assumed to complete; those of the others may never
\* return.
FairSpec == Spec /\ WF_vars(Returns(1))

\* ------------------------------------------------------ properties
OpTasks == {t \in Tasks : task[t].kind = "op"}

AuthTasks == {t \in Tasks : task[t].kind = "auth"}

Done(t) == task[t].pc = "done"

\* The session check of t returned false and its fallback authentication failed.
PreconditionFailed(t) ==
    task[t].ens = "false" /\ task[t].auth \in {"missing", "failed"}

\* C1: a dispatched operation whose session check returned false and whose fallback
\* authentication failed issues no remote domain call and returns an error result,
\* also when the session global still holds a handle. (The result is looked at only
\* where no notification failed: that failure is C8's.)
C1_NoRemoteCallAfterFailedAuth ==
    \A t \in OpTasks :
        PreconditionFailed(t) =>
            /\ task[t].nCall = 0
            /\ (Done(t) /\ ~task[t].notifyFault) => task[t].result.kind = "error"

\* An authentication-error result: it reports the missing credentials or the
\* unauthenticated state.
IsAuthError(r) ==
    r.kind = "error" /\ r.cause \in {"required", "not_authenticated", "handshake"}

\* C2: with no credentials in the environment and no authenticate call made, every
\* operation returns an authentication-error result, issues no remote call and
\* leaves the session absent.
C2_UnauthenticatedYieldsAuthError ==
    (envEmail = NoneV /\ envPassword = NoneV /\ AuthTasks = {}) =>
        /\ testzeus_client = NoClient
        /\ \A t \in OpTasks :
            /\ task[t].nReval = 0 /\ task[t].nShake = 0 /\ task[t].nCall = 0
            /\ Done(t) => IsAuthError(task[t].result)

\* C3: once authenticate_testzeus has returned, the handle it constructed is the
\* session only if its handshake succeeded, and after a failed handshake the
\* session is what it was before the call (no other write having followed).
C3_StoredOnlyAfterHandshake ==
    \A t \in Tasks :
        /\ (testzeus_client = t /\ task[t].auth # "none") => task[t].auth = "ok"
        /\ (task[t].auth = "failed" /\ lastWritten = t) =>
               testzeus_client = task[t].prior

\* C4: the handle on which a dispatched operation makes its remote domain call has
\* completed its handshake successfully.
C4_CallOnlyOnShakenHandle ==
    \A t \in OpTasks : task[t].nCall > 0 => task[t].callShaken

\* The credentials authenticate_testzeus resolves for coroutine t.
Resolved(t) ==
    [email |-> Or(task[t].email, envEmail), password |-> Or(task[t].password, envPassword)]

\* C5: two authenticate calls with valid, distinct credentials whose handshakes both
\* succeed both return success, and the session then holds the handle written last,
\* handshaken and built from that call's own credentials; the session is never
\* absent once written.
C5_LastWriterWins ==
    /\ lastWritten # NoClient => testzeus_client = lastWritten
    /\ \A t1 \in AuthTasks, t2 \in AuthTasks :
        (/\ t1 # t2 /\ Done(t1) /\ Done(t2)
         /\ task[t1].auth = "ok" /\ task[t2].auth = "ok"
         /\ hcreds[t1] # hcreds[t2])
        => /\ ~task[t1].notifyFault => task[t1].result = Success
           /\ ~task[t2].notifyFault => task[t2].result = Success
           /\ lastWritten \in {t1, t2} =>
                /\ testzeus_client = lastWritten
                /\ shaken[testzeus_client]
                /\ hcreds[testzeus_client] = Resolved(testzeus_client)
                /\ ValidCreds(hcreds[testzeus_client])

C5_Witness ==
    \E t1 \in AuthTasks, t2 \in AuthTasks :
        /\ t1 # t2 /\ Done(t1) /\ Done(t2)
        /\ task[t1].result = Success /\ task[t2].result = Success
        /\ hcreds[t1] # hcreds[t2]
        /\ task[t2].raced
        /\ testzeus_client = t2

\* C6: every handler whose session check returned false has attempted the fallback
\* authentication.
C6_AlwaysFallsBack ==
    \A t \in OpTasks : task[t].ens = "false" => task[t].fellBack

\* A text result returned to the caller.
IsText(r) == r.kind \in {"success", "error"}

FailedInside(t) ==
    \/ task[t].ens = "false" /\ task[t].nReval = 1
    \/ task[t].auth \in {"missing", "failed"}
    \/ task[t].remote \in {"raise", "malformed"}

C8_NotificationBestEffort ==
    \A t \in OpTasks :
        Done(t) =>
            /\ task[t].result.kind # "raised"
            /\ (task[t].remote = "ok" \/ (task[t].remote = "malformed" /\ ~Projects(task[t].op)))
                   => task[t].result = Success
            /\ task[t].remote = "raise" => task[t].result = Err(Prefix(task[t].op), "remote")

\* C9: one invocation issues at most one revalidation, one handshake and one remote
\* domain call; when its precondition succeeded and its arguments are valid it
\* issues exactly one remote call, the operation's own.
C9_NoRetries ==
    \A t \in OpTasks :
        /\ task[t].nReval <= 1 /\ task[t].nShake <= 1 /\ task[t].nCall <= 1
        /\ ((task[t].ens = "true" \/ task[t].auth = "ok") /\ task[t].argsOK) =>
              /\ task[t].nCall = 1
              /\ task[t].sent.method = Method(task[t].op)
        /\ task[t].nCall = 0 => task[t].sent = NoCall

C9_Witness ==
    \E t \in OpTasks :
        /\ Done(t) /\ task[t].remote = "raise"
        /\ task[t].nReval = 1 /\ task[t].ens = "false"
        /\ task[t].nShake = 1 /\ task[t].auth = "ok"
        /\ task[t].nCall = 1

\* C10: every list call carries per_page <= 100: a list tool sends 100 for a request
\* above 100 and the requested value otherwise, a list resource sends 100.
C10_PerPageCapped ==
    \A t \in OpTasks :
        task[t].nCall > 0 =>
            /\ task[t].sent.per_page <= 100
            /\ (task[t].op \in ListTools /\ task[t].per_page > 100) => task[t].sent.per_page = 100
            /\ (task[t].op \in ListTools /\ task[t].per_page <= 100) =>
                   task[t].sent.per_page = task[t].per_page
            /\ task[t].op \in ListResources => task[t].sent.per_page = 100

C10_Witness ==
    \E t \in OpTasks :
        /\ task[t].op \in ListTools /\ task[t].per_page > 100
        /\ task[t].sent = [method |-> Method(task[t].op), per_page |-> 100]
        /\ task[t].result = Success

\* ------------------------------------------------------ C11
CheckTasks == {t \in Tasks : task[t].kind = "check"}

\* C11: ensure_authenticated never changes which handle the session holds. With no
\* session it returns False without a remote call; with a session it revalidates
\* that handle (once per call) and returns True exactly when the revalidation did
\* not raise; after a revalidation that raised, and with no authenticate_testzeus
\* having written since, the revalidated handle is still the stored session.
C11_EnsureKeepsSession ==
    \A t \in OpTasks \cup CheckTasks :
        /\ (task[t].ens # "none" /\ task[t].nReval = 0) =>
              task[t].ens = "false" /\ task[t].rv = "none" /\ task[t].revalHnd = NoClient
        /\ task[t].nReval > 0 =>
              /\ task[t].revalHnd \in Handles
              /\ hcreds[task[t].revalHnd] # NoCreds
        /\ t \in OpTasks => task[t].nReval <= 1
        /\ (task[t].ens = "true") <=> (task[t].rv = "ok")
        /\ (task[t].ens = "false" /\ task[t].nReval > 0) => task[t].rv = "raise"
        /\ (task[t].rv = "raise" /\ lastWritten = task[t].revalHnd) =>
              testzeus_client = task[t].revalHnd

\* a revalidation raised, no handle was built afterwards, and the revalidated
\* handle is still the session
C11_Witness ==
    \E t \in OpTasks :
        /\ Done(t)
        /\ task[t].rv = "raise" /\ task[t].ens = "false"
        /\ task[t].auth \in {"none", "missing"}
        /\ testzeus_client # NoClient
        /\ testzeus_client = task[t].revalHnd

\* ------------------------------------------------------ C12
\* no authenticate_testzeus was in flight when the first call started, and none has
\* written the session since
Undisturbed(t) == ~task[t].raced /\ lastWritten = task[t].prior

\* the remote gave the two revalidations the same answer (the handle is valid for
\* both, or failing for both)
SameAnswer(t) == <<task[t].rv, task[t].rv2>> \notin {<<"ok", "raise">>, <<"raise", "ok">>}

\* C12: two calls of ensure_authenticated in succession, with no
\* authenticate_testzeus between or concurrent with them and a remote that treats
\* the handle the same both times, return the same boolean, each call revalidates
\* a stored handle anew, and the session after the second call is the session
\* before the first.
C12_EnsureIdempotent ==
    \A t \in CheckTasks : (Done(t) /\ Undisturbed(t) /\ SameAnswer(t)) =>
        /\ task[t].ens = task[t].ens2
        /\ task[t].result = Bool(task[t].ens2 = "true")
        /\ testzeus_client = task[t].prior
        /\ task[t].nReval = IF task[t].prior = NoClient THEN 0 ELSE 2

\* both calls ran on a stored handle whose revalidation raises
C12_Witness ==
    \E t \in CheckTasks :
        /\ Done(t) /\ Undisturbed(t)
        /\ task[t].prior # NoClient
        /\ task[t].rv = "raise" /\ task[t].rv2 = "raise"
        /\ task[t].ens = "false" /\ task[t].ens2 = "false"
        /\ testzeus_client = task[t].prior

\* ------------------------------------------------------ C13
\* a credential that is omitted or empty
Missing(v) == v \in {NoneV, ""}

\* what authenticate_testzeus has after consulting its arguments and the environment
Effective(t) ==
    [email |-> IF Missing(task[t].email) THEN envEmail ELSE task[t].email,
     password |-> IF Missing(task[t].password) THEN envPassword ELSE task[t].password]

CredentialsMissing(t) == Missing(Effective(t).email) \/ Missing(Effective(t).password)

\* t has called authenticate_testzeus, directly or as a handler's fallback
CalledAuthenticate(t) == task[t].kind = "auth" \/ task[t].fellBack

\* C13: when the email or the password is missing or empty after the arguments and
\* the environment were consulted, authenticate_testzeus constructs no handle,
\* issues no handshake, writes no session and (called directly, its notification
\* not failing) returns the missing-credentials error; otherwise it does issue a
\* handshake, and a handshake that raises is reported as the distinct
\* "Authentication failed" result.
C13_MissingCredentials ==
    \A t \in Tasks : CalledAuthenticate(t) =>
        /\ CredentialsMissing(t) =>
              /\ task[t].auth = "missing"
              /\ task[t].nShake = 0
              /\ hcreds[t] = NoCreds
              /\ lastWritten # t /\ testzeus_client # t
              /\ (task[t].kind = "auth" /\ Done(t) /\ ~task[t].notifyFault) =>
                    task[t].result = Err("Missing credentials", "required")
        /\ ~CredentialsMissing(t) =>
              /\ task[t].auth # "missing"
              /\ task[t].nShake = 1
        /\ (task[t].auth = "failed" /\ task[t].kind = "auth" /\ Done(t)
                /\ ~task[t].notifyFault) =>
              /\ task[t].result = Err("Authentication failed", "handshake")
              /\ task[t].result # Err("Missing credentials", "required")

\* a direct call with an empty password and nothing in the environment returned
\* the missing-credentials error while another call's session stayed in place
C13_Witness ==
    \E t \in AuthTasks :
        /\ Done(t)
        /\ task[t].password = "" /\ envPassword = NoneV
        /\ task[t].result = Err("Missing credentials", "required")
        /\ testzeus_client \notin {NoClient, t}
        /\ testzeus_client = task[t].prior

\* ------------------------------------------------------ C14
\* C14: a handle built by a direct authenticate_testzeus call carries, for email
\* and password independently, the call's argument when one was supplied and the
\* environment's value only when the argument was omitted; a handle built by a
\* handler's fallback carries the environment's credentials.
C14_ArgumentBeforeEnvironment ==
    \A t \in Tasks : hcreds[t] # NoCreds =>
        /\ t \in AuthTasks =>
              /\ hcreds[t].email = IF task[t].email = NoneV THEN envEmail ELSE task[t].email
              /\ hcreds[t].password =
                    IF task[t].password = NoneV THEN envPassword ELSE task[t].password
        /\ t \in OpTasks =>
              hcreds[t] = [email |-> envEmail, password |-> envPassword]

\* ------------------------------------------------------ C15
\* the step constructs t's handle inside authenticate_testzeus
EntersHandshake(t) ==
    /\ task[t].nShake = 0 /\ task'[t].nShake = 1
    /\ task'[t].pc = "handshake"

\* C15: the session changes only in a step in which some coroutine's
\* authenticate_testzeus constructs its handle, and then to that handle; a handler
\* does so only as the fallback after its ensure_authenticated returned False. A
\* handler whose check returned True never issues a handshake, builds no handle,
\* and none of its steps changes the session, whether its remote call returns or
\* raises.
C15_OnlyAuthenticateWrites ==
    [][ /\ testzeus_client' # testzeus_client =>
              \E t \in Tasks :
                  /\ EntersHandshake(t)
                  /\ testzeus_client' = t
                  /\ task'[t].kind = "op" =>
                        task'[t].ens = "false" /\ task'[t].fellBack
        /\ \A t \in Tasks : (task'[t].kind = "op" /\ task'[t].ens = "true") =>
              /\ task'[t].nShake = 0
              /\ task'[t].auth = "none"
              /\ hcreds'[t] = NoCreds
              /\ task'[t] # task[t] => testzeus_client' = testzeus_client
      ]_vars

\* a handler whose check returned True had its remote call raise; the session is
\* still the handle it revalidated
C15_Witness ==
    \E t \in OpTasks :
        /\ Done(t)
        /\ task[t].ens = "true" /\ task[t].remote = "raise"
        /\ task[t].result = Err(Prefix(task[t].op), "remote")
        /\ task[t].nShake = 0
        /\ testzeus_client = task[t].revalHnd

\* ------------------------------------------------------ C16
\* C16: nothing authenticates before the first call: while no coroutine has been
\* started the session is absent, no handle exists and no remote call was issued.
\* Every handle that exists was constructed, with one handshake, inside a direct
\* authenticate_testzeus call or inside a handler's fallback after a False check;
\* the session is at every moment either absent or one such handle.
C16_NoImplicitAuthentication ==
    /\ (\A t \in Tasks : task[t].pc = "idle") =>
          /\ testzeus_client = NoClient
          /\ \A h \in Handles : hcreds[h] = NoCreds /\ ~shaken[h]
          /\ \A t \in Tasks : task[t].nReval + task[t].nShake + task[t].nCall = 0
    /\ \A h \in Handles :
          /\ shaken[h] => hcreds[h] # NoCreds
          /\ hcreds[h] # NoCreds =>
                /\ task[h].nShake = 1
                /\ \/ task[h].kind = "auth"
                   \/ task[h].kind = "op" /\ task[h].fellBack /\ task[h].ens = "false"
    /\ testzeus_client \in {NoClient} \cup {h \in Handles : hcreds[h] # NoCreds}
    /\ (\E t \in Tasks : task[t].nReval + task[t].nCall > 0) =>
          \E h \in Handles : task[h].nShake = 1

\* the first handshake of the run is in flight, inside the fallback of the first
\* handler called, and has not returned
C16_Witness ==
    \E t \in OpTasks :
        /\ task[t].pc = "handshake" /\ task[t].fellBack
        /\ testzeus_client = t /\ ~shaken[t]
        /\ \A u \in Tasks \ {t} : task[u].pc = "idle"

\* ------------------------------------------------------ C17
\* C17: every error result a handler returns, whatever caused it, starts with the
\* "Error <verb-ing> <entity>" prefix of that handler, followed by the cause.
C17_UniformErrorForm ==
    \A t \in OpTasks :
        (Done(t) /\ task[t].result.kind = "error") =>
            /\ task[t].result.prefix = Prefix(task[t].op)
            /\ task[t].result.cause # ""

\* ------------------------------------------------------ C18
\* the session check of t returned True, or its own fallback handshake succeeded
OwnPreconditionOK(t) == task[t].ens = "true" \/ task[t].auth = "ok"

\* C18: with only dispatched operations in flight, a handler whose own session
\* check or own authentication succeeded issues its remote call on a handle whose
\* handshake or revalidation has succeeded, whatever fails inside the others.
C18_FailureIsolated ==
    (AuthTasks = {} /\ CheckTasks = {}) =>
        \A t \in OpTasks :
            (OwnPreconditionOK(t) /\ task[t].nCall > 0) => task[t].callShaken

\* ------------------------------------------------------ C19
Started(t) == task[t].pc # "idle"

\* C19: every coroutine that was started returns (or raises) provided each call it
\* awaits itself returns or raises, whatever the other coroutines do, also when an
\* await of another coroutine never returns.
C19_NoBlocking ==
    \A t \in Tasks : WF_vars(Returns(t)) => (Started(t) ~> Done(t))

\* a handler has returned while the remote call of another is still outstanding
C19_Witness ==
    \E t \in OpTasks, u \in OpTasks :
        /\ t # u
        /\ Done(t) /\ task[t].nCall = 1 /\ task[t].result = Success
        /\ task[u].pc = "call"
        /\ task[u].callHnd = task[t].callHnd

\* ------------------------------------------------------ C20
\* the handle the precondition of t validated: the one its ensure_authenticated
\* revalidated, or the one its own fallback constructed and authenticated
ValidatedHandle(t) == IF task[t].ens = "true" THEN task[t].revalHnd ELSE t

\* C20: a handler whose precondition validated a handle issues its remote call on
\* that very handle, whatever the other coroutines write to the session while it
\* is suspended.
C20_CallOnValidatedHandle ==
    \A t \in OpTasks :
        (OwnPreconditionOK(t) /\ task[t].nCall > 0) => task[t].callHnd = ValidatedHandle(t)

\* ------------------------------------------------------ C21
\* the parameters for which the caller passed a non-empty value
Supplied(t) == {f \in UpdateParams(task[t].op) : ~Missing(task[t].args[f])}

\* C21: the remote update call of an update tool carries exactly the parameters
\* for which the caller passed a non-empty value, each with the value passed, and
\* no other field.
C21_ForwardsSuppliedOnly ==
    \A t \in OpTasks :
        (task[t].op \in UpdateTools /\ task[t].nCall > 0) =>
            task[t].data = {[key |-> SentKey(task[t].op, f), value |-> task[t].args[f]] :
                              f \in Supplied(t)}

====
